---- MODULE Spec2Model ----
(***************************************************************************)
(* A model of the mood-analysis service of src/main.py: the five request   *)
(* handlers (analyze_mood, set_emergency_code, get_mood_trends,            *)
(* log_visual_emotion, submit_checkin), the Firestore collections they     *)
(* read and write, the two classifiers as black boxes, and the string and  *)
(* floating-point operations the handlers' results depend on.              *)
(***************************************************************************)
EXTENDS Integers, Sequences, FiniteSets, TLC

(***************************************************************************)
(* Strings.  A Python str is a sequence of characters; a character is a    *)
(* one-character string, except "U+2019", the right single quotation mark  *)
(* of three of the crisis phrases.                                         *)
(***************************************************************************)
UpperChars ==
    <<"A","B","C","D","E","F","G","H","I","J","K","L","M",
      "N","O","P","Q","R","S","T","U","V","W","X","Y","Z">>

LowerChars ==
    <<"a","b","c","d","e","f","g","h","i","j","k","l","m",
      "n","o","p","q","r","s","t","u","v","w","x","y","z">>

\* str.lower() on one character.
lower_char(c) ==
    IF \E i \in 1..26 : UpperChars[i] = c
    THEN LowerChars[CHOOSE i \in 1..26 : UpperChars[i] = c]
    ELSE c

\* str.lower()
lower(s) == [i \in 1..Len(s) |-> lower_char(s[i])]

\* Python's `needle in hay` on two strings.
contains(needle, hay) ==
    \E i \in 0..(Len(hay) - Len(needle)) :
        SubSeq(hay, i + 1, i + Len(needle)) = needle

\* The crisis phrases, as written in the source.
crisis_keywords ==
    {  <<"h","o","p","e","l","e","s","s">>,
       <<"w","o","r","t","h","l","e","s","s">>,
       <<"s","u","i","c","i","d","a","l">>,
       <<"k","i","l","l"," ","m","y","s","e","l","f">>,
       <<"g","i","v","e"," ","u","p">>,
       <<"e","n","d"," ","i","t"," ","a","l","l">>,
       <<"c","a","n","'","t"," ","g","o"," ","o","n">>,
       <<"n","o"," ","p","u","r","p","o","s","e">>,
       <<"d","o","n","U+2019","t"," ","w","a","n","t"," ","t","o"," ","b","e"," ","h","e","r","e">>,
       <<"e","v","e","r","y","t","h","i","n","g"," ","i","s"," ","m","e","a","n","i","n","g","l","e","s","s">>,
       <<"b","e","t","t","e","r"," ","o","f","f"," ","w","i","t","h","o","u","t"," ","m","e">>,
       <<"I"," ","w","a","n","t"," ","t","o"," ","d","i","s","a","p","p","e","a","r">>,
       <<"I"," ","h","a","t","e"," ","l","i","v","i","n","g">>,
       <<"I","U+2019","m"," ","d","o","n","e"," ","w","i","t","h"," ","l","i","f","e">>,
       <<"I"," ","w","a","n","t"," ","i","t"," ","t","o"," ","e","n","d">>  }

(***************************************************************************)
(* Floating point.  A Python float is an IEEE-754 double.  Every double    *)
(* the handlers compute with is a multiple of 2^-FracBits below            *)
(* 2^(NLimbs*LimbBits-FracBits), so a double is held exactly as that       *)
(* multiple, a natural number written in NLimbs limbs of LimbBits bits,    *)
(* least significant first.  Each operation computes the exact result and  *)
(* rounds it to MantBits significant bits, ties to even, as the hardware   *)
(* does.                                                                   *)
(***************************************************************************)
LimbBits == 20
LimbBase == 1048576
NLimbs == 5
FracBits == 70
MantBits == 53

BigZero == [i \in 1..NLimbs |-> 0]

BigPow2(e) ==
    [i \in 1..NLimbs |-> IF i - 1 = e \div LimbBits THEN 2 ^ (e % LimbBits) ELSE 0]

BigAdd(a, b) ==
    LET carry[i \in 1..NLimbs] ==
            IF i = 1 THEN 0 ELSE (a[i-1] + b[i-1] + carry[i-1]) \div LimbBase
    IN  [i \in 1..NLimbs |-> (a[i] + b[i] + carry[i]) % LimbBase]

BigMulSmall(a, k) ==
    LET carry[i \in 1..NLimbs] ==
            IF i = 1 THEN 0 ELSE (a[i-1] * k + carry[i-1]) \div LimbBase
    IN  [i \in 1..NLimbs |-> (a[i] * k + carry[i]) % LimbBase]

\* The remainder carried into limb i when dividing by d, most significant first.
BigRemAbove(a, d) ==
    LET rem[i \in 1..(NLimbs + 1)] ==
            IF i = NLimbs + 1 THEN 0 ELSE (rem[i+1] * LimbBase + a[i]) % d
    IN  rem

BigDivSmall(a, d) ==
    LET rem == BigRemAbove(a, d)
    IN  [i \in 1..NLimbs |-> (rem[i+1] * LimbBase + a[i]) \div d]

BigRemSmall(a, d) == BigRemAbove(a, d)[1]

BigGreater(a, b) ==
    \E i \in 1..NLimbs : a[i] > b[i] /\ \A j \in (i+1)..NLimbs : a[j] = b[j]

Bit(a, i) == (a[(i \div LimbBits) + 1] \div (2 ^ (i % LimbBits))) % 2

BitLength(a) ==
    IF a = BigZero THEN 0
    ELSE LET top == CHOOSE i \in 1..NLimbs :
                        a[i] # 0 /\ \A j \in (i+1)..NLimbs : a[j] = 0
             len == CHOOSE n \in 1..LimbBits : 2 ^ (n-1) <= a[top] /\ a[top] < 2 ^ n
         IN  (top - 1) * LimbBits + len

\* a with its bits below position d cleared.
ClearLow(a, d) ==
    [i \in 1..NLimbs |->
        LET lo == (i - 1) * LimbBits
        IN  IF lo + LimbBits <= d THEN 0
            ELSE IF lo >= d THEN a[i]
            ELSE (a[i] \div (2 ^ (d - lo))) * (2 ^ (d - lo))]

\* The double nearest to m + (a fraction of a unit, nonzero iff sticky):
\* round to MantBits significant bits, ties to even.
RoundToDouble(m, sticky) ==
    LET d == BitLength(m) - MantBits
    IN  IF d <= 0 THEN m
        ELSE LET guard == Bit(m, d - 1) = 1
                 rest  == sticky \/ ClearLow(m, d - 1) # m
                 odd   == Bit(m, d) = 1
                 T     == ClearLow(m, d)
             IN  IF guard /\ (rest \/ odd) THEN BigAdd(T, BigPow2(d)) ELSE T

\* float + float
float_add(a, b) == RoundToDouble(BigAdd(a, b), FALSE)

\* float / int
float_div_int(a, n) == RoundToDouble(BigDivSmall(a, n), BigRemSmall(a, n) # 0)

\* The double a decimal literal num/den denotes (den is 100 or 1000).
float_of_decimal(num, den) ==
    LET scaled == BigMulSmall(BigPow2(FracBits), num)
    IN  RoundToDouble(BigDivSmall(scaled, den), BigRemSmall(scaled, den) # 0)

\* round(x, 2), as the number of hundredths of the result: the decimal with
\* two places nearest to the double's exact value, ties to even.
round2(x) ==
    LET y     == BigMulSmall(x, 100)
        k0    == (y[NLimbs - 1] \div (2 ^ (FracBits - (NLimbs - 2) * LimbBits)))
                 + y[NLimbs] * (2 ^ ((NLimbs - 1) * LimbBits - FracBits))
        guard == Bit(y, FracBits - 1) = 1
        rest  == ClearLow(y, FracBits - 1) # y
    IN  IF guard /\ (rest \/ k0 % 2 = 1) THEN k0 + 1 ELSE k0

\* sum(xs) over floats: a left fold from 0, one rounding per addition.
RECURSIVE py_sum_from(_, _)
py_sum_from(acc, xs) ==
    IF xs = <<>> THEN acc
    ELSE py_sum_from(float_add(acc, Head(xs)), Tail(xs))

py_sum(xs) == py_sum_from(BigZero, xs)


(***************************************************************************)
(* Dates.  A stored timestamp is a Firestore timestamp (a datetime, held   *)
(* as its calendar date [y, m, d]) or a string.  The strings of the model  *)
(* are date-only, ten characters or fewer.                                 *)
(***************************************************************************)
Digits == <<"0","1","2","3","4","5","6","7","8","9">>

IsDigit(c) == \E i \in 1..10 : Digits[i] = c

DigitValue(c) == (CHOOSE i \in 1..10 : Digits[i] = c) - 1

DaysInMonth(y, m) ==
    IF m \in {4, 6, 9, 11} THEN 30
    ELSE IF m # 2 THEN 31
    ELSE IF (y % 4 = 0 /\ y % 100 # 0) \/ y % 400 = 0 THEN 29 ELSE 28

\* Whether datetime.fromisoformat(s) returns (TRUE) or raises ValueError.
fromisoformat_ok(s) ==
    /\ Len(s) = 10
    /\ s[5] = "-" /\ s[8] = "-"
    /\ \A i \in {1, 2, 3, 4, 6, 7, 9, 10} : IsDigit(s[i])
    /\ LET y == DigitValue(s[1]) * 1000 + DigitValue(s[2]) * 100
                + DigitValue(s[3]) * 10 + DigitValue(s[4])
           m == DigitValue(s[6]) * 10 + DigitValue(s[7])
           d == DigitValue(s[9]) * 10 + DigitValue(s[10])
       IN  y >= 1 /\ m \in 1..12 /\ d \in 1..DaysInMonth(y, m)

\* datetime.fromisoformat(s), for a string it accepts.
fromisoformat(s) ==
    [y |-> DigitValue(s[1]) * 1000 + DigitValue(s[2]) * 100
           + DigitValue(s[3]) * 10 + DigitValue(s[4]),
     m |-> DigitValue(s[6]) * 10 + DigitValue(s[7]),
     d |-> DigitValue(s[9]) * 10 + DigitValue(s[10])]

\* dt.strftime('%Y-%m-%d'), for a year of four digits.
strftime(dt) ==
    << Digits[(dt.y \div 1000) + 1], Digits[((dt.y \div 100) % 10) + 1],
       Digits[((dt.y \div 10) % 10) + 1], Digits[(dt.y % 10) + 1], "-",
       Digits[(dt.m \div 10) + 1], Digits[(dt.m % 10) + 1], "-",
       Digits[(dt.d \div 10) + 1], Digits[(dt.d % 10) + 1] >>

\* Whether to_date(timestamp) raises.
to_date_raises(timestamp) ==
    timestamp.type = "str" /\ ~fromisoformat_ok(timestamp.value)

\* to_date(timestamp), when it does not raise.
to_date(timestamp) ==
    IF timestamp.type = "str"
    THEN strftime(fromisoformat(timestamp.value))
    ELSE strftime(timestamp.value)

\* The days datetime.now() falls on, in the order the clock passes them.
Days == << [y |-> 2024, m |-> 2, d |-> 29], [y |-> 2024, m |-> 3, d |-> 1] >>

(***************************************************************************)
(* State: the Firestore collections, the clock, and the last request and   *)
(* its response.                                                           *)
(*   mood_entries: the documents of the collection in document-id order,   *)
(*     which is the order a query streams them in; add() draws a random    *)
(*     id, so a new document lands at any position.                        *)
(*   user_emergency_settings: user id -> document, for the ids that exist. *)
(*   visual_mood_entries, user_checkins: documents, which no handler       *)
(*     reads, in the order written.                                        *)
(*   now: the index in Days of today.                                      *)
(*   request, response: the last request served (its JSON body, what the   *)
(*     classifiers and the database did during it, for those it reached)   *)
(*     and the HTTP response.                                              *)
(*   configured: user id -> the code word of the user's last set-emergency *)
(*     request that was saved, as the request gave it (a history           *)
(*     variable: no handler reads it).                                     *)
(*   calls: the number of requests served (a history variable, kept by the *)
(*     specifications that bound a run by it).                             *)
(***************************************************************************)
VARIABLES mood_entries, user_emergency_settings, visual_mood_entries,
          user_checkins, now, request, response, configured, calls

vars == << mood_entries, user_emergency_settings, visual_mood_entries,
           user_checkins, now, request, response, configured, calls >>

db == << mood_entries, user_emergency_settings, visual_mood_entries, user_checkins >>

\* request.get_json(): JSON null, or an object (a function from its keys).
JsonNull == [isNone |-> TRUE, obj |-> << >>]
JsonObject(o) == [isNone |-> FALSE, obj |-> o]

\* `not data`
Falsy(data) == data.isNone \/ DOMAIN data.obj = {}

\* `key in data`, for data that is not None.
HasKey(data, key) == key \in DOMAIN data.obj

\* What a classifier call does: raise (a timeout, a malformed result), or
\* return a label and a score, the double that score/1000 denotes.
Raises == [called |-> TRUE, ok |-> FALSE, label |-> << >>, score |-> 0]
Returns(label, score) == [called |-> TRUE, ok |-> TRUE, label |-> label, score |-> score]
\* The classifier (or the database) was not reached by the request.
NotCalled == [called |-> FALSE, ok |-> FALSE, label |-> << >>, score |-> 0]

NoRequest == [op |-> "none", data |-> JsonNull, emo |-> NotCalled, risk |-> NotCalled,
              db_ok |-> TRUE]
NoResponse == [status |-> 0, body |-> << >>]

Req(op, data, emo, risk, db_ok) ==
    [op |-> op, data |-> data, emo |-> emo, risk |-> risk, db_ok |-> db_ok]

\* jsonify({"error": ...}), status
Error(status, msg) == [status |-> status, body |-> [error |-> msg]]

\* InsertAt with the document written over the one at the place, as
\* document(id).set() does when the id is taken.
InsertAt_overwriting(s, i, e) ==
    IF i < Len(s) THEN [s EXCEPT ![i + 1] = e] ELSE Append(s, e)

\* collection.add(e): the sequence s with e as its element i + 1.
InsertAt(s, i, e) == SubSeq(s, 1, i) \o << e >> \o SubSeq(s, i + 1, Len(s))

Timestamp(dt) == [type |-> "datetime", value |-> dt]

S_sadness == <<"s","a","d","n","e","s","s">>
S_anger == <<"a","n","g","e","r">>
S_fear == <<"f","e","a","r">>

(***************************************************************************)
(* POST /analyzeMood                                                       *)
(***************************************************************************)
\* any(word in user_text.lower() for word in crisis_keywords)
keyword_crisis(user_text) ==
    \E word \in crisis_keywords : contains(word, lower(user_text))

\* ai_crisis with the threshold inclusive: risk_score >= 0.85.
ai_crisis_inclusive(risk) ==
    /\ lower(risk.label) \in {S_sadness, S_anger, S_fear}
    /\ ~BigGreater(float_of_decimal(85, 100), float_of_decimal(risk.score, 1000))

\* risk_label in {"sadness", "anger", "fear"} and risk_score > 0.85
ai_crisis(risk) ==
    /\ lower(risk.label) \in {S_sadness, S_anger, S_fear}
    /\ BigGreater(float_of_decimal(risk.score, 1000), float_of_decimal(85, 100))

crisis_detected(user_text, risk) == keyword_crisis(user_text) \/ ai_crisis(risk)

\* The emergency trigger, from the user's settings document.
trigger_emergency(user_id, user_text) ==
    /\ user_id \in DOMAIN user_emergency_settings
    /\ LET user_settings == user_emergency_settings[user_id]
       IN  /\ "code_word" \in DOMAIN user_settings
           /\ user_settings.code_word # << >>
           /\ contains(user_settings.code_word, lower(user_text))

\* The document analyze_mood adds.
mood_entry(data, emo, risk) ==
    [user_id |-> data.obj.user_id,
     text |-> data.obj.text,
     emotion |-> emo.label,
     confidence |-> round2(float_of_decimal(emo.score, 1000)),
     crisis |-> crisis_detected(data.obj.text, risk),
     timestamp |-> Timestamp(Days[now]),
     risk_score |-> round2(float_of_decimal(risk.score, 1000)),
     risk_label |-> lower(risk.label),
     trigger_emergency |-> trigger_emergency(data.obj.user_id, data.obj.text)]

\* The body analyze_mood returns with the entry saved.
mood_response(entry) ==
    [status |-> 200,
     body |-> [emotion |-> entry.emotion,
               confidence |-> entry.confidence,
               crisis |-> entry.crisis,
               risk_score |-> entry.risk_score,
               risk_label |-> entry.risk_label,
               trigger_emergency |-> entry.trigger_emergency,
               message |-> "Entry saved to Firebase successfully"]]

\* analyze_outcome with a failure of the risk classifier swallowed: the
\* handler goes on with the empty label and the score 0.
analyze_outcome_swallowing(data, emo, risk, db_ok) ==
    IF Falsy(data) \/ ~HasKey(data, "text") \/ ~HasKey(data, "user_id") THEN "invalid"
    ELSE IF ~emo.ok THEN "emotion_raised"
    ELSE IF ~db_ok THEN "db_raised"
    ELSE "saved"

\* How far the handler gets: the 400 of the field check, the exception of
\* the first call that raises (each is caught and answered with a 500), or
\* the entry saved.
analyze_outcome(data, emo, risk, db_ok) ==
    IF Falsy(data) \/ ~HasKey(data, "text") \/ ~HasKey(data, "user_id") THEN "invalid"
    ELSE IF ~emo.ok THEN "emotion_raised"
    ELSE IF ~risk.ok THEN "risk_raised"
    ELSE IF ~db_ok THEN "db_raised"
    ELSE "saved"

\* The handler: data is the request's JSON, emo and risk what the two
\* classifier calls do, db_ok whether the database calls succeed, pos the
\* place the new document's random id gives it.
analyze_mood(data, emo, risk, db_ok, pos) ==
    LET outcome == analyze_outcome(data, emo, risk, db_ok)
    IN  /\ request' = Req("analyze_mood", data,
                          IF outcome = "invalid" THEN NotCalled ELSE emo,
                          IF outcome \in {"invalid", "emotion_raised"} THEN NotCalled ELSE risk,
                          outcome # "db_raised")
        /\ UNCHANGED << user_emergency_settings, visual_mood_entries, user_checkins,
                        now, configured >>
        /\ IF outcome = "invalid"
           THEN /\ response' = Error(400, "Missing text or user_id")
                /\ UNCHANGED mood_entries
           ELSE IF outcome # "saved"
           THEN /\ response' = Error(500, "exception")
                /\ UNCHANGED mood_entries
           ELSE LET entry == mood_entry(data, emo, risk)
                IN  /\ pos \in 0..Len(mood_entries)
                    /\ mood_entries' = InsertAt(mood_entries, pos, entry)
                    /\ response' = mood_response(entry)

(***************************************************************************)
(* POST /setEmergency                                                      *)
(***************************************************************************)
\* stored_code_word without the lowercasing.
stored_code_word_as_given(code_word) == code_word

\* data['code_word'].lower()
stored_code_word(code_word) == lower(code_word)

set_emergency_code(data, db_ok) ==
    /\ UNCHANGED << mood_entries, visual_mood_entries, user_checkins, now >>
    /\ IF \/ Falsy(data) \/ ~HasKey(data, "user_id") \/ ~HasKey(data, "code_word")
          \/ ~HasKey(data, "emergency_contact")
       THEN /\ response' = Error(400, "Missing fields")
            /\ UNCHANGED << user_emergency_settings, configured >>
       ELSE IF ~db_ok
       THEN /\ response' = Error(500, "exception")
            /\ UNCHANGED << user_emergency_settings, configured >>
       ELSE /\ configured' =
                  [u \in DOMAIN configured \cup {data.obj.user_id} |->
                      IF u = data.obj.user_id THEN data.obj.code_word ELSE configured[u]]
            /\ user_emergency_settings' =
                  [u \in DOMAIN user_emergency_settings \cup {data.obj.user_id} |->
                      IF u = data.obj.user_id
                      THEN [code_word |-> stored_code_word(data.obj.code_word),
                            emergency_contact |-> data.obj.emergency_contact,
                            updated_at |-> Timestamp(Days[now])]
                      ELSE user_emergency_settings[u]]
            /\ response' = [status |-> 200,
                            body |-> [message |-> "Emergency code and contact saved successfully."]]
    /\ request' = Req("set_emergency_code", data, NotCalled, NotCalled,
                      db_ok \/ response'.status = 400)


(***************************************************************************)
(* POST /getMoodTrends                                                     *)
(***************************************************************************)
RECURSIVE SumSeq(_)
SumSeq(xs) == IF xs = << >> THEN 0 ELSE Head(xs) + SumSeq(Tail(xs))

\* doc.get("risk_score", 0), in hundredths.
risk_score_of(doc) == IF "risk_score" \in DOMAIN doc THEN doc.risk_score ELSE 0

\* round(sum(risk_scores) / len(risk_scores), 2) if risk_scores else 0, in
\* hundredths; the stored scores are the doubles their two decimals denote.
average_risk(risk_scores) ==
    IF risk_scores = << >> THEN 0
    ELSE round2(float_div_int(
             py_sum([i \in 1..Len(risk_scores) |-> float_of_decimal(risk_scores[i], 100)]),
             Len(risk_scores)))

\* round(statistics.stdev(risk_scores), 2), in hundredths, for two scores or
\* more.  statistics computes the variance exactly, as a fraction: with the
\* scores k[i]/100 it is V / (n(n-1)) / 10^4 for V = n*sum(k^2) - sum(k)^2,
\* and the result is the r nearest to the root of V / (n(n-1)).  (At an exact
\* tie the model rounds up; the double of such a root decides in the code.)
std_dev(risk_scores) ==
    LET n  == Len(risk_scores)
        s1 == SumSeq(risk_scores)
        s2 == SumSeq([i \in 1..n |-> risk_scores[i] * risk_scores[i]])
        V  == n * s2 - s1 * s1
        D  == n * (n - 1)
    IN  CHOOSE r \in 0..(s1 + 1) :
            /\ (r = 0 \/ (2 * r - 1) * (2 * r - 1) * D <= 4 * V)
            /\ 4 * V < (2 * r + 1) * (2 * r + 1) * D

\* mood_swing with the threshold 0.2.
mood_swing_above_fifth(risk_scores) ==
    IF Len(risk_scores) >= 2 THEN std_dev(risk_scores) > 20 ELSE FALSE

\* mood_swing: std_dev > 2, computed only for two scores or more.
mood_swing(risk_scores) ==
    IF Len(risk_scores) >= 2 THEN std_dev(risk_scores) > 200 ELSE FALSE

\* dict(Counter(emotions))
Counter(emotions) ==
    [e \in {emotions[i] : i \in 1..Len(emotions)} |->
        Cardinality({i \in 1..Len(emotions) : emotions[i] = e})]

\* Whether the grouping loop raises on the streamed documents.
grouping_raises(docs) ==
    \E i \in 1..Len(docs) :
        "timestamp" \in DOMAIN docs[i] /\ to_date_raises(docs[i].timestamp)

\* grouped_data: date -> the entries of the date, in stream order.
grouped_data(docs) ==
    LET dated == SelectSeq(docs, LAMBDA doc : "timestamp" \in DOMAIN doc)
        dates == {to_date(dated[i].timestamp) : i \in 1..Len(dated)}
    IN  [date \in dates |->
            SelectSeq(dated, LAMBDA doc : to_date(doc.timestamp) = date)]

\* One date's DailyTrend.
daily_trend(entries) ==
    LET risk_scores == [i \in 1..Len(entries) |-> risk_score_of(entries[i])]
        with_emotion == SelectSeq(entries,
                            LAMBDA doc : "emotion" \in DOMAIN doc /\ doc.emotion # << >>)
        emotions == [i \in 1..Len(with_emotion) |-> with_emotion[i].emotion]
    IN  [average_risk_score |-> average_risk(risk_scores),
         emotion_distribution |-> Counter(emotions),
         mood_swing |-> mood_swing(risk_scores)]

\* trends, from the documents in the order streamed.
trends(docs) ==
    LET grouped == grouped_data(docs)
    IN  [date \in DOMAIN grouped |-> daily_trend(grouped[date])]

\* db.collection("mood_entries").where("user_id", "==", user_id).stream()
stream(user_id) == SelectSeq(mood_entries, LAMBDA doc : doc.user_id = user_id)

\* The response to get-trends over the documents streamed.
trends_response(user_id, docs) ==
    IF grouping_raises(docs) THEN Error(500, "exception")
    ELSE [status |-> 200,
          body |-> [user_id |-> user_id,
                    trends |-> trends(docs),
                    message |-> "Mood trends calculated successfully"]]

get_mood_trends(data, db_ok) ==
    /\ UNCHANGED << db, now, configured >>
    /\ IF data.isNone
       THEN response' = Error(500, "exception")
       ELSE IF ~HasKey(data, "user_id") \/ data.obj.user_id = ""
       THEN response' = Error(400, "Missing user_id")
       ELSE IF ~db_ok
       THEN response' = Error(500, "exception")
       ELSE response' = trends_response(data.obj.user_id, stream(data.obj.user_id))
    /\ request' = Req("get_mood_trends", data, NotCalled, NotCalled,
                      db_ok \/ data.isNone \/ response'.status = 400)

(***************************************************************************)
(* POST /logVisualEmotion                                                  *)
(***************************************************************************)
\* data.get(key, None): the value in a sequence of one, or the empty sequence.
Get(data, key) == IF HasKey(data, key) THEN << data.obj[key] >> ELSE << >>

log_visual_emotion(data, db_ok) ==
    /\ UNCHANGED << mood_entries, user_emergency_settings, user_checkins, now, configured >>
    /\ IF Falsy(data) \/ ~HasKey(data, "user_id") \/ ~HasKey(data, "emotion")
       THEN /\ response' = Error(400, "Missing user_id or emotion")
            /\ UNCHANGED visual_mood_entries
       ELSE IF ~db_ok
       THEN /\ response' = Error(500, "exception")
            /\ UNCHANGED visual_mood_entries
       ELSE /\ visual_mood_entries' = Append(visual_mood_entries,
                  [user_id |-> data.obj.user_id,
                   emotion |-> data.obj.emotion,
                   confidence |-> Get(data, "confidence"),
                   timestamp |-> Timestamp(Days[now])])
            /\ response' = [status |-> 200,
                            body |-> [message |-> "Visual emotion logged successfully",
                                      user_id |-> data.obj.user_id,
                                      emotion |-> data.obj.emotion,
                                      confidence |-> Get(data, "confidence")]]
    /\ request' = Req("log_visual_emotion", data, NotCalled, NotCalled,
                      db_ok \/ response'.status = 400)

(***************************************************************************)
(* POST /submitCheckIn                                                     *)
(***************************************************************************)
submit_checkin(data, db_ok) ==
    /\ UNCHANGED << mood_entries, user_emergency_settings, visual_mood_entries, now,
                    configured >>
    /\ IF data.isNone
       THEN /\ response' = Error(500, "exception")
            /\ UNCHANGED user_checkins
       ELSE IF \/ ~HasKey(data, "user_id") \/ data.obj.user_id = ""
               \/ ~HasKey(data, "slider_value")
               \/ ~HasKey(data, "tags") \/ data.obj.tags = << >>
       THEN /\ response' = Error(400, "Missing required fields")
            /\ UNCHANGED user_checkins
       ELSE IF ~db_ok
       THEN /\ response' = Error(500, "exception")
            /\ UNCHANGED user_checkins
       ELSE /\ user_checkins' = Append(user_checkins,
                  [user_id |-> data.obj.user_id,
                   slider_value |-> data.obj.slider_value,
                   tags |-> data.obj.tags,
                   note |-> IF HasKey(data, "note") THEN data.obj.note ELSE << >>,
                   timestamp |-> Timestamp(Days[now])])
            /\ response' = [status |-> 200,
                            body |-> [message |-> "Check-in saved successfully"]]
    /\ request' = Req("submit_checkin", data, NotCalled, NotCalled,
                      db_ok \/ data.isNone \/ response'.status = 400)

\* Midnight passes: datetime.now() moves to the next day.
Tick ==
    /\ now < Len(Days)
    /\ now' = now + 1
    /\ UNCHANGED << db, request, response, configured, calls >>

(***************************************************************************)
(* The requests the service is driven with.                                *)
(***************************************************************************)
Users == {"u1", "u2"}

S_joy == <<"j","o","y">>
S_FEAR == <<"F","E","A","R">>

Text_empty == << >>
Text_hopeless == <<"S","o"," ","H","o","p","e","l","e","s","s">>
Text_red == <<"R","E","D"," ","t","e","a">>

Word_red == <<"R","e","d">>
Word_tea == <<"t","e","a">>

EmptyObject == [k \in {} |-> << >>]

AnalyzeBodies ==
    { JsonNull, JsonObject(EmptyObject),
      JsonObject([text |-> Text_hopeless]), JsonObject([user_id |-> "u1"]) }
    \cup { JsonObject([text |-> t, user_id |-> u]) :
             t \in {Text_empty, Text_hopeless}, u \in Users }

EmotionOutcomes == { Raises, Returns(S_joy, 990) }

RiskOutcomes ==
    { Raises, Returns(S_sadness, 990), Returns(S_joy, 500), Returns(S_joy, 1500) }

EmergencyBodies ==
    { JsonNull,
      JsonObject([user_id |-> "u1", code_word |-> Word_red]),
      JsonObject([user_id |-> "u1", emergency_contact |-> "c1"]),
      JsonObject([code_word |-> Word_red, emergency_contact |-> "c1"]) }
    \cup { JsonObject([user_id |-> u, code_word |-> Word_red, emergency_contact |-> "c1"]) :
             u \in Users }

TrendsBodies ==
    { JsonNull, JsonObject(EmptyObject), JsonObject([user_id |-> ""]) }
    \cup { JsonObject([user_id |-> u]) : u \in Users }

VisualBodies ==
    { JsonNull, JsonObject([user_id |-> "u1"]), JsonObject([emotion |-> S_joy]),
      JsonObject([user_id |-> "u1", emotion |-> S_joy]),
      JsonObject([user_id |-> "u1", emotion |-> S_joy, confidence |-> 90]) }

CheckinBodies ==
    { JsonNull, JsonObject(EmptyObject),
      JsonObject([slider_value |-> 5, tags |-> << "calm" >>]),
      JsonObject([user_id |-> "", slider_value |-> 5, tags |-> << "calm" >>]),
      JsonObject([user_id |-> "u1", tags |-> << "calm" >>]),
      JsonObject([user_id |-> "u1", slider_value |-> 5]),
      JsonObject([user_id |-> "u1", slider_value |-> 5, tags |-> << >>]),
      JsonObject([user_id |-> "u1", slider_value |-> 0, tags |-> << "calm" >>]),
      JsonObject([user_id |-> "u1", slider_value |-> 5, tags |-> << "calm" >>,
                  note |-> Text_red]) }

\* The number of requests a run serves.
MaxCalls == 2

Init ==
    /\ mood_entries = << >>
    /\ user_emergency_settings = EmptyObject
    /\ visual_mood_entries = << >>
    /\ user_checkins = << >>
    /\ now = 1
    /\ request = NoRequest
    /\ response = NoResponse
    /\ configured = EmptyObject
    /\ calls = 0

\* One more request served.
Counted == calls < MaxCalls /\ calls' = calls + 1

Next ==
    \/ \E data \in AnalyzeBodies, emo \in EmotionOutcomes, risk \in RiskOutcomes,
          db_ok \in BOOLEAN, pos \in 0..Len(mood_entries) :
          Counted /\ analyze_mood(data, emo, risk, db_ok, pos)
    \/ \E data \in EmergencyBodies, db_ok \in BOOLEAN :
          Counted /\ set_emergency_code(data, db_ok)
    \/ \E data \in TrendsBodies, db_ok \in BOOLEAN :
          Counted /\ get_mood_trends(data, db_ok)
    \/ \E data \in VisualBodies, db_ok \in BOOLEAN :
          Counted /\ log_visual_emotion(data, db_ok)
    \/ \E data \in CheckinBodies, db_ok \in BOOLEAN :
          Counted /\ submit_checkin(data, db_ok)

Spec == Init /\ [][Next]_vars

(***************************************************************************)
(* SpecCrisis: the first request is an analysis, over every crisis phrase  *)
(* in several casings and positions and over labels and scores on both     *)
(* sides of the threshold.                                                 *)
(***************************************************************************)
upper_char(c) ==
    IF \E i \in 1..26 : LowerChars[i] = c
    THEN UpperChars[CHOOSE i \in 1..26 : LowerChars[i] = c]
    ELSE c

upper(s) == [i \in 1..Len(s) |-> upper_char(s[i])]

Pad_before == <<"o","h"," ">>
Pad_after == <<" ","n","o","w">>
Text_hope == <<"h","o","p","e">>
S_Sadness == <<"S","a","d","n","e","s","s">>

CrisisTexts ==
    UNION { { k, lower(k), upper(k), Pad_before \o k \o Pad_after } : k \in crisis_keywords }
    \cup { Text_empty, Text_red, Text_hope }

CrisisLabels == { S_sadness, S_anger, S_fear, S_joy, S_FEAR, S_Sadness }

CrisisScores == { 100, 849, 850, 851, 855, 990 }

NextCrisis ==
    \E text \in CrisisTexts, label \in CrisisLabels, score \in CrisisScores :
        /\ calls = 0
        /\ calls' = calls + 1
        /\ analyze_mood(JsonObject([text |-> text, user_id |-> "u1"]),
                        Returns(S_joy, 990), Returns(label, score), TRUE, 0)

SpecCrisis == Init /\ [][NextCrisis]_vars

(***************************************************************************)
(* SpecEmergency: any sequence of set-emergency requests, with analyses    *)
(* between them while the collection holds fewer than MaxEntries entries.  *)
(***************************************************************************)
MaxEntries == 2

Text_tea == <<"I","c","e","d"," ","T","e","a">>

EmergencySettings ==
    { JsonObject([user_id |-> "u1", code_word |-> w, emergency_contact |-> "c1"]) :
        w \in { Word_red, Word_tea, << >> } }
    \cup { JsonObject([user_id |-> "u2", code_word |-> Word_red, emergency_contact |-> "c2"]) }

EmergencyAnalyses ==
    { << JsonObject([text |-> Text_red, user_id |-> "u1"]), Returns(S_sadness, 990) >>,
      << JsonObject([text |-> Text_red, user_id |-> "u1"]), Returns(S_joy, 500) >>,
      << JsonObject([text |-> Text_tea, user_id |-> "u1"]), Returns(S_joy, 500) >>,
      << JsonObject([text |-> Text_empty, user_id |-> "u1"]), Returns(S_joy, 500) >>,
      << JsonObject([text |-> Text_red, user_id |-> "u2"]), Returns(S_joy, 500) >> }

NextEmergency ==
    \/ \E data \in EmergencySettings :
          set_emergency_code(data, TRUE) /\ UNCHANGED calls
    \/ \E a \in EmergencyAnalyses :
          /\ Len(mood_entries) < MaxEntries
          /\ analyze_mood(a[1], Returns(S_joy, 990), a[2], TRUE, Len(mood_entries))
          /\ UNCHANGED calls

SpecEmergency == Init /\ [][NextEmergency]_vars

(***************************************************************************)
(* SpecTrends: a history of at most MaxHistory entries, the documents the  *)
(* collection already held (written by other clients: the handler itself   *)
(* provides for string timestamps and for missing fields) and the ones     *)
(* analyses add over two later days, read back by get-trends.              *)
(***************************************************************************)
MaxHistory == 4

Str(value) == [type |-> "str", value |-> value]

\* The day before the first of Days.
DayBefore == [y |-> 2024, m |-> 2, d |-> 28]

Date_feb28 == <<"2","0","2","4","-","0","2","-","2","8">>
Date_slashes == <<"2","9","/","0","2","/","2","0","2","4">>
Date_feb30 == <<"2","0","2","4","-","0","2","-","3","0">>

Old_no_timestamp == [user_id |-> "u1", emotion |-> S_joy, risk_score |-> 40]
Old_string_date ==
    [user_id |-> "u1", emotion |-> S_fear, risk_score |-> 30, timestamp |-> Str(Date_feb28)]
Old_slashes ==
    [user_id |-> "u1", emotion |-> S_joy, risk_score |-> 40, timestamp |-> Str(Date_slashes)]
Old_feb30 ==
    [user_id |-> "u1", emotion |-> S_joy, risk_score |-> 40, timestamp |-> Str(Date_feb30)]
Old_no_score == [user_id |-> "u1", emotion |-> << >>, timestamp |-> Timestamp(DayBefore)]
Old_scored(risk_score) ==
    [user_id |-> "u1", emotion |-> S_sadness, risk_score |-> risk_score,
     timestamp |-> Timestamp(DayBefore)]

OldHistories ==
    { << >>, << Old_no_timestamp >>, << Old_string_date, Old_no_score >>, << Old_slashes >>,
      << Old_feb30, Old_string_date >>,
      << Old_scored(90), Old_scored(10) >>, << Old_scored(500), Old_scored(0) >> }

InitTrends ==
    /\ mood_entries \in OldHistories
    /\ user_emergency_settings = EmptyObject
    /\ visual_mood_entries = << >>
    /\ user_checkins = << >>
    /\ now = 1
    /\ request = NoRequest
    /\ response = NoResponse
    /\ configured = EmptyObject
    /\ calls = 0

NextTrends ==
    \/ \E risk \in { Returns(S_joy, 200), Returns(S_sadness, 300) },
          pos \in 0..Len(mood_entries) :
          /\ Len(mood_entries) < MaxHistory
          /\ analyze_mood(JsonObject([text |-> Text_empty, user_id |-> "u1"]),
                          Returns(S_joy, 990), risk, TRUE, pos)
          /\ UNCHANGED calls
    \/ get_mood_trends(JsonObject([user_id |-> "u1"]), TRUE) /\ UNCHANGED calls
    \/ Tick

SpecTrends == InitTrends /\ [][NextTrends]_vars

(***************************************************************************)
(* The properties.                                                         *)
(***************************************************************************)
\* needle is a substring of hay when case is ignored, character by character.
ContainsIgnoreCase(needle, hay) ==
    \E i \in 0..(Len(hay) - Len(needle)) :
        \A j \in 1..Len(needle) : lower_char(hay[i + j]) = lower_char(needle[j])

\* The last request was an analysis that reached both classifiers and the
\* database, and none of them failed.
Analyzed ==
    /\ request.op = "analyze_mood"
    /\ request.emo.called /\ request.emo.ok
    /\ request.risk.called /\ request.risk.ok
    /\ request.db_ok

\* The last request was a get-trends request for a user, the database up.
TrendsAsked ==
    /\ request.op = "get_mood_trends"
    /\ ~request.data.isNone
    /\ HasKey(request.data, "user_id")
    /\ request.data.obj.user_id # ""
    /\ request.db_ok

\* C1: whenever the analysed text contains a phrase of the crisis-phrase set
\* as a substring, case ignored, the analysis answers crisis = true, whatever
\* the risk classifier returned.
C1_PhraseMeansCrisis ==
    (Analyzed /\ \E phrase \in crisis_keywords :
                    ContainsIgnoreCase(phrase, request.data.obj.text))
    => (response.status = 200 /\ response.body.crisis = TRUE)

\* The model-based check as the claim states it: the lowercased label is one
\* of sadness, anger, fear and the score, in thousandths, is above 0.85.
ModelCheck(risk) ==
    /\ lower(risk.label) \in {S_sadness, S_anger, S_fear}
    /\ risk.score > 850

\* The keyword check of the handler: a phrase of the set, as the source writes
\* it, is a substring of the lowercased text.
KeywordCheck(text) == \E word \in crisis_keywords : contains(word, lower(text))

C3_TriggerIffCodeWord ==
    Analyzed =>
        LET u    == request.data.obj.user_id
            text == request.data.obj.text
        IN  /\ response.status = 200
            /\ response.body.trigger_emergency =
                  (/\ u \in DOMAIN configured
                   /\ configured[u] # << >>
                   /\ ContainsIgnoreCase(configured[u], text))

\* C3's case: an analysis before the user had any settings answered false;
\* with the code word "Red" configured, the same text, which holds it in
\* another casing, fired the trigger, and the analysis found no crisis.
C3_Witness ==
    /\ Analyzed
    /\ request.data.obj.user_id = "u1"
    /\ "u1" \in DOMAIN configured
    /\ configured["u1"] = Word_red
    /\ request.data.obj.text = Text_red
    /\ response.body.trigger_emergency = TRUE
    /\ response.body.crisis = FALSE
    /\ Len(mood_entries) = 2
    /\ mood_entries[1].trigger_emergency = FALSE
    /\ mood_entries[1].text = Text_red
    /\ mood_entries[1].user_id = "u1"

\* A classifier call of the last request raised.
ClassifierRaised(req) ==
    /\ req.op = "analyze_mood"
    /\ \/ req.emo.called /\ ~req.emo.ok
       \/ req.risk.called /\ ~req.risk.ok

\* C4: an analysis during which a classifier call fails returns an error,
\* adds no entry, and its response carries neither crisis nor
\* trigger_emergency.
C4_ClassifierFailureIsError ==
    [][(calls' = calls + 1 /\ ClassifierRaised(request'))
        => /\ response'.status >= 400
           /\ "error" \in DOMAIN response'.body
           /\ "crisis" \notin DOMAIN response'.body
           /\ "trigger_emergency" \notin DOMAIN response'.body
           /\ mood_entries' = mood_entries]_vars

\* C4's case: with an entry already saved, the risk classifier raised after
\* the emotion classifier had returned, and the collection still holds one.
C4_Witness ==
    /\ ClassifierRaised(request)
    /\ request.emo.ok
    /\ response.status = 500
    /\ Len(mood_entries) = 1

\* C5: an analysis during which a classifier returns a confidence outside
\* [0,1] ends in an error, and every entry of the collection has confidence
\* and risk_score within [0,1].
C5_ConfidenceInRange ==
    /\ (Analyzed /\ (request.emo.score > 1000 \/ request.risk.score > 1000))
           => response.status >= 400
    /\ \A i \in 1..Len(mood_entries) :
           /\ mood_entries[i].confidence \in 0..100
           /\ mood_entries[i].risk_score \in 0..100

\* The documents of the stream whose timestamp is missing or converts.
WellFormed(docs) ==
    SelectSeq(docs, LAMBDA doc :
        "timestamp" \notin DOMAIN doc \/ ~to_date_raises(doc.timestamp))

\* C6: get-trends skips a record whose timestamp does not convert to a date,
\* and returns the trends of all the other records; records with no
\* timestamp are dropped without error.
C6_MalformedSkipped ==
    TrendsAsked =>
        /\ response.status = 200
        /\ response.body.trends = trends(WellFormed(stream(request.data.obj.user_id)))

\* The sequence docs in the order p lists its indices.
Reordered(docs, p) == [i \in 1..Len(docs) |-> docs[p[i]]]

\* C7: get-trends answers the same whatever the order of the user's
\* entries: every permutation of them gives the response returned.
C7_OrderIndependent ==
    TrendsAsked =>
        LET u    == request.data.obj.user_id
            docs == stream(u)
        IN  \A p \in Permutations(1..Len(docs)) :
                trends_response(u, Reordered(docs, p)) = response

\* The request lacks a field its handler requires.
LacksRequiredField(req) ==
    LET has(key) == ~req.data.isNone /\ HasKey(req.data, key)
    IN  \/ req.op = "analyze_mood" /\ ~(has("text") /\ has("user_id"))
        \/ req.op = "set_emergency_code"
              /\ ~(has("user_id") /\ has("code_word") /\ has("emergency_contact"))
        \/ req.op = "log_visual_emotion" /\ ~(has("user_id") /\ has("emotion"))
        \/ req.op = "submit_checkin"
              /\ ~(has("user_id") /\ has("slider_value") /\ has("tags")
                   /\ req.data.obj.tags # << >>)

\* C8: a write request that lacks a required field is rejected with a
\* validation error (status 400) and leaves every collection unchanged.
C8_MissingFieldRejected ==
    [][(calls' = calls + 1 /\ LacksRequiredField(request'))
        => (response'.status = 400 /\ db' = db)]_vars

\* The last request was an analysis that saved its entry.
Saved(req, resp) == req.op = "analyze_mood" /\ resp.status = 200

\* C9: a successful analysis adds exactly one entry, whose crisis and
\* trigger_emergency are the ones returned, and leaves the entries already
\* there as they are; every other request, a failed analysis included,
\* leaves the collection as it is.
C9_AppendOnly ==
    [][calls' = calls + 1 =>
        IF Saved(request', response')
        THEN \E pos \in 0..Len(mood_entries) :
                /\ Len(mood_entries') = Len(mood_entries) + 1
                /\ mood_entries' = InsertAt(mood_entries, pos, mood_entries'[pos + 1])
                /\ mood_entries'[pos + 1].crisis = response'.body.crisis
                /\ mood_entries'[pos + 1].trigger_emergency
                       = response'.body.trigger_emergency
        ELSE mood_entries' = mood_entries]_vars

\* C9's case: a second analysis saved its entry, with crisis = true, before
\* the entry the first had saved.
C9_Witness ==
    /\ Saved(request, response)
    /\ Len(mood_entries) = 2
    /\ response.body.crisis = TRUE
    /\ mood_entries[1].crisis = TRUE
    /\ mood_entries[2].crisis = FALSE
    /\ calls = 2

\* The user's entries that get-trends groups under date.
EntriesOn(u, date) ==
    SelectSeq(stream(u), LAMBDA doc :
        "timestamp" \in DOMAIN doc /\ to_date(doc.timestamp) = date)

\* C10: get-trends reports mood_swing = false for every date whose entries'
\* risk scores all lie in [0,1], and for every date with one entry.
C10_NoMoodSwingInRange ==
    (TrendsAsked /\ response.status = 200) =>
        \A date \in DOMAIN response.body.trends :
            LET entries == EntriesOn(request.data.obj.user_id, date)
            IN  (\/ Len(entries) = 1
                 \/ \A i \in 1..Len(entries) : risk_score_of(entries[i]) \in 0..100)
                => response.body.trends[date].mood_swing = FALSE

\* C10's case: get-trends answered for a date with two entries of scores
\* 0.9 and 0.1, reporting no mood swing, and for a date with one entry.
C10_Witness ==
    /\ TrendsAsked
    /\ response.status = 200
    /\ \E date \in DOMAIN response.body.trends :
          LET entries == EntriesOn("u1", date)
          IN  /\ Len(entries) >= 2
              /\ \E i, j \in 1..Len(entries) :
                    risk_score_of(entries[i]) = 90 /\ risk_score_of(entries[j]) = 10
              /\ response.body.trends[date].mood_swing = FALSE
    /\ \E date \in DOMAIN response.body.trends : Len(EntriesOn("u1", date)) = 1

====
